---- MODULE Spec2Model ----
(***************************************************************************)
(* Easy-KME: key pool, allocation (enc_keys), retrieval (dec_keys) and     *)
(* status, modelled from src/services/key_service.py,                      *)
(* src/services/storage_service.py and src/api/routes.py.                  *)
(*                                                                         *)
(* The store is the set of JSON files of StorageService.  A request is     *)
(* served by a worker; every call of a StorageService method that reads or *)
(* rewrites a file is one step of the worker, and what the handler does    *)
(* between two such calls belongs to the step of the call before it.       *)
(* Spec runs one worker, which is the uvicorn event loop running each      *)
(* async handler to completion.  SpecConc runs NumWorkers workers over the *)
(* same data directory with their steps interleaved.                       *)
(***************************************************************************)
EXTENDS Integers, Sequences, FiniteSets, TLC

VARIABLES
    keys_file,       \* data/keys.json: the list of Key records
    key_pool_file,   \* data/key_pool.json: the KeyPool record
    sessions_file,   \* data/sessions.json: the list of Session records
    sae_registry_file, \* data/sae_registry.json: the list of SAERegistry records
    next_uuid,       \* uuid.uuid4(): the number of identifiers drawn so far
    pc,              \* worker -> position in its handler
    req,             \* worker -> the request it serves (or served last)
    loc,             \* worker -> the handler's local variables
    resp,            \* worker -> the response to its last request
    alloc_log        \* history: the key containers returned by enc_keys, in order

vars == <<keys_file, key_pool_file, sessions_file, sae_registry_file, next_uuid, pc, req, loc, resp, alloc_log>>

store == <<keys_file, key_pool_file, sessions_file, sae_registry_file>>

(***************************************************************************)
(* Settings (src/config.py), scaled down.                                  *)
(***************************************************************************)
KeyPoolSize == 2          \* KEY_POOL_SIZE
KeySize == 8              \* KEY_SIZE, bits
MaxKeyPerRequest == 3     \* KEY_MAX_PER_REQUEST
KeyMaxSize == 16          \* KEY_MAX_SIZE
KeyMinSize == 8           \* KEY_MIN_SIZE
MaxSaeIdCount == 1        \* MAX_SAE_ID_COUNT
RefillThreshold == 1      \* KeyPool.refill_threshold

(***************************************************************************)
(* Bounds of the model.                                                    *)
(***************************************************************************)
NumWorkers == 2           \* workers of SpecConc
MaxKeyIds == 2            \* longest key_IDs list of a dec_keys request
MaxFaultUuid == 4         \* no write fails once this many uuids have been drawn

Workers == 1..NumWorkers

SAE == {"SAE_001", "SAE_002", "SAE_003"}

None == "None"            \* Optional[str] with no value
Absent == -1              \* Optional[int] with no value

\* the byte values secrets.token_bytes draws from
ByteVals == {0, 255}

PAD == 64                 \* the base64 padding character '='

\* range(n) of generate_keys is empty for n < 0
Max(a, b) == IF a >= b THEN a ELSE b

Range(s) == {s[i] : i \in 1..Len(s)}

(***************************************************************************)
(* base64.b64encode / base64.b64decode over sequences of bytes; a base64   *)
(* text is the sequence of its 6-bit digits, PAD for '='.                  *)
(***************************************************************************)
RECURSIVE B64Encode(_)
B64Encode(bytes) ==
    IF Len(bytes) = 0 THEN <<>>
    ELSE IF Len(bytes) = 1 THEN
        <<bytes[1] \div 4, (bytes[1] % 4) * 16, PAD, PAD>>
    ELSE IF Len(bytes) = 2 THEN
        <<bytes[1] \div 4, (bytes[1] % 4) * 16 + bytes[2] \div 16,
          (bytes[2] % 16) * 4, PAD>>
    ELSE
        <<bytes[1] \div 4, (bytes[1] % 4) * 16 + bytes[2] \div 16,
          (bytes[2] % 16) * 4 + bytes[3] \div 64, bytes[3] % 64>>
        \o B64Encode(SubSeq(bytes, 4, Len(bytes)))

RECURSIVE B64Decode(_)
B64Decode(text) ==
    IF Len(text) < 4 THEN <<>>
    ELSE
        LET b1 == text[1] * 4 + text[2] \div 16
            b2 == (text[2] % 16) * 16 + text[3] \div 4
            b3 == (text[3] % 4) * 64 + text[4]
        IN  IF text[3] = PAD THEN <<b1>>
            ELSE IF text[4] = PAD THEN <<b1, b2>>
            ELSE <<b1, b2, b3>> \o B64Decode(SubSeq(text, 5, Len(text)))

\* the values secrets.token_bytes(n) can return
TokenBytes(n) == [1..n -> ByteVals]

(***************************************************************************)
(* Key generation.                                                         *)
(***************************************************************************)
\* Key(key_id, key_material, key_size) with the model's defaults
NewKey(key_id, key_material, key_size) ==
    [key_id |-> key_id, key_material |-> key_material, key_size |-> key_size,
     is_used |-> FALSE, master_sae_id |-> None, slave_sae_ids |-> <<>>]

\* generate_key: uuid `key_id`, random bytes `bytes` of key_size // 8 bytes
generate_key(key_id, bytes, key_size) ==
    NewKey(key_id, B64Encode(bytes), key_size)

\* generate_keys(number, key_size) for the random bytes `rnd` (a sequence of
\* `number` byte strings); the uuids are first_uuid, first_uuid + 1, ...
generate_keys(number, key_size, first_uuid, rnd) ==
    [i \in 1..number |-> generate_key(first_uuid + i - 1, rnd[i], key_size)]

\* what secrets.token_bytes can return over the `number` calls of generate_keys
RandomDraws(number, key_size) == [1..number -> TokenBytes(key_size \div 8)]


(***************************************************************************)
(* Requests, responses and the handlers' local variables.                  *)
(*   op "enc_keys": POST /{target}/enc_keys by `caller` (route get_key and *)
(*                  KeyService.get_keys_for_master_sae)                    *)
(*   op "dec_keys": POST /{target}/dec_keys by `caller` (route             *)
(*                  get_key_with_key_ids)                                  *)
(*   op "status":   GET /{target}/status by `caller`                       *)
(*   op "retrieve": KeyService.get_keys_for_slave_sae(caller, target,      *)
(*                  key_ids) called directly                               *)
(*   op "refill":   KeyService.refill_key_pool() called directly           *)
(* caller is the SAE id the authentication step returned for the headers.  *)
(* extension_mandatory is Optional[List[dict]]: extension_mandatory_given   *)
(* is FALSE for None, and the list is then <<>>.                           *)
(* A response holds what the KeyService method returned (returned = FALSE  *)
(* for None, else the KeyContainer's keys and key_size, or the status      *)
(* dict's available_keys) and what the route answered (status, and body,   *)
(* the SpecKeyContainer's keys); status = 0 when no route is involved.     *)
(***************************************************************************)
\* the request headers the authentication reads: X-Client-Verified, X-Client-DN
\* (a DN is the sequence of its comma-separated parts, each an attribute and a
\* value) and X-SAE-ID; None and <<>> for a header that is not sent
NoHeaders == [client_verified |-> None, client_dn |-> <<>>, x_sae_id |-> None]

NoReq ==
    [op |-> "none", headers |-> NoHeaders, caller |-> None, target |-> None, number |-> Absent,
     size |-> Absent, additional |-> <<>>, extension_mandatory |-> <<>>,
     extension_mandatory_given |-> FALSE, key_ids |-> <<>>]

NoResp ==
    [status |-> 0, outcome |-> "none", returned |-> FALSE, container |-> <<>>,
     key_size |-> 0, body |-> <<>>, available_keys |-> 0, max_key_pool_size |-> 0]

NoPool == [current_size |-> 0, max_size |-> 0, key_size |-> 0, refill_threshold |-> 0]

NoSession == [session_id |-> 0, master_sae_id |-> None, slave_sae_ids |-> <<>>, key_ids |-> <<>>]

NoLoc ==
    [key_pool |-> NoPool, new_keys |-> <<>>, all_keys |-> <<>>,
     selected_keys |-> <<>>, session |-> NoSession, sessions |-> <<>>]

\* the attributes Settings.__init__ sets
SettingsAttributes ==
    {"kme_host", "kme_port", "kme_id", "kme_cert_path", "kme_key_path", "ca_cert_path",
     "data_dir", "key_pool_size", "key_size", "require_client_cert", "verify_ca",
     "allow_header_auth", "log_level", "log_file", "api_version", "api_prefix",
     "max_key_per_request", "key_max_size", "key_min_size", "max_sae_id_count"}

\* the methods class AuthService defines
AuthServiceMethods ==
    {"extract_sae_id_from_cert", "verify_client_certificate", "register_sae",
     "authenticate_client", "is_sae_authorized"}

(***************************************************************************)
(* enc_keys: validation.                                                   *)
(***************************************************************************)
\* the smallest `number` and `size` the route get_key accepts
RouteMinNumber == 1
RouteMinSize == 8

\* RouteValidation without the test of extension_mandatory
RouteValidation_NoExtensionCheck(r) ==
    IF r.number # Absent /\ r.number < RouteMinNumber THEN "number_lt_1"
    ELSE IF r.size # Absent /\ r.size < RouteMinSize THEN "size_lt_8"
    ELSE IF r.size # Absent /\ r.size % 8 # 0 THEN "size_not_multiple_of_8"
    ELSE "ok"

\* get_key: the checks made before the core is called; the 400 it raises, or "ok";
\* `if key_request.extension_mandatory` is true of a list that is not None and
\* not empty
RouteValidation(r) ==
    IF r.number # Absent /\ r.number < RouteMinNumber THEN "number_lt_1"
    ELSE IF r.size # Absent /\ r.size < RouteMinSize THEN "size_lt_8"
    ELSE IF r.size # Absent /\ r.size % 8 # 0 THEN "size_not_multiple_of_8"
    ELSE IF r.extension_mandatory_given /\ r.extension_mandatory # <<>>
    THEN "extension_mandatory"
    ELSE "ok"

\* get_key: the KeyRequest handed to the core (`x or default`)
InternalRequest(r) ==
    [number |-> IF r.number = Absent \/ r.number = 0 THEN 1 ELSE r.number,
     size |-> IF r.size = Absent \/ r.size = 0 THEN KeySize ELSE r.size,
     additional |-> r.additional]

\* CoreValidation without the test of number against max_key_per_request
CoreValidation_NoNumberCheck(k) ==
    IF k.size % 8 # 0 THEN "size_not_multiple_of_8"
    ELSE IF k.size < KeyMinSize \/ k.size > KeyMaxSize THEN "size_out_of_bounds"
    ELSE IF Len(k.additional) > MaxSaeIdCount THEN "too_many_additional"
    ELSE "ok"

\* get_keys_for_master_sae: the checks that return None, in their order; or "ok"
CoreValidation(k) ==
    IF k.size % 8 # 0 THEN "size_not_multiple_of_8"
    ELSE IF k.number > MaxKeyPerRequest THEN "number_exceeds_max"
    ELSE IF k.size < KeyMinSize \/ k.size > KeyMaxSize THEN "size_out_of_bounds"
    ELSE IF Len(k.additional) > MaxSaeIdCount THEN "too_many_additional"
    ELSE "ok"

(***************************************************************************)
(* enc_keys: selection and marking.                                        *)
(***************************************************************************)
\* IsAvailable without the filter: every stored key counts as available
IsAvailable_NoFilter(key) == TRUE

\* `not k.is_used and not k.master_sae_id`
IsAvailable(key) == ~key.is_used /\ key.master_sae_id = None

\* available_keys, as the positions in all_keys of the keys it holds, in order
AvailableKeys(all_keys) ==
    SelectSeq([i \in 1..Len(all_keys) |-> i], LAMBDA i : IsAvailable(all_keys[i]))

\* InsufficientKeys that gives up only when no key at all is available
InsufficientKeys_OnlyWhenNone(available, number) == Len(available) = 0

\* `len(available_keys) < key_request.number`
InsufficientKeys(available, number) == Len(available) < number

\* SelectKeys that takes the keys from the end of the list
SelectKeys_FromEnd(available, number) ==
    SubSeq(available, Max(1, Len(available) - number + 1), Len(available))

\* SelectKeys with a slice one key too long
SelectKeys_OneMore(available, number) ==
    SubSeq(available, 1, IF Len(available) < number + 1 THEN Len(available) ELSE number + 1)

\* `available_keys[: key_request.number or 1]`
SelectKeys(available, number) ==
    SubSeq(available, 1, IF Len(available) < number THEN Len(available) ELSE number)

\* MarkKey that sets the used flag and the slaves and leaves master_sae_id unset
MarkKey_NoMaster(key, master_sae_id, slave_sae_id, additional) ==
    [key EXCEPT !.is_used = TRUE, !.slave_sae_ids = <<slave_sae_id>> \o additional]

\* MarkKey that leaves the additional slaves out
MarkKey_PrimaryOnly(key, master_sae_id, slave_sae_id, additional) ==
    [key EXCEPT !.is_used = TRUE, !.master_sae_id = master_sae_id,
                !.slave_sae_ids = <<slave_sae_id>>]

\* the loop body that marks one selected key
MarkKey(key, master_sae_id, slave_sae_id, additional) ==
    [key EXCEPT !.is_used = TRUE, !.master_sae_id = master_sae_id,
                !.slave_sae_ids = <<slave_sae_id>> \o additional]

\* all_keys after the loop over selected_keys (the selected keys are objects of all_keys)
MarkKeys(all_keys, selected, master_sae_id, slave_sae_id, additional) ==
    [i \in 1..Len(all_keys) |->
        IF i \in Range(selected)
        THEN MarkKey(all_keys[i], master_sae_id, slave_sae_id, additional)
        ELSE all_keys[i]]

NewSession(session_id, master_sae_id, slave_sae_id, additional, selected_keys) ==
    [session_id |-> session_id, master_sae_id |-> master_sae_id,
     slave_sae_ids |-> <<slave_sae_id>> \o additional,
     key_ids |-> [i \in 1..Len(selected_keys) |-> selected_keys[i].key_id]]

\* APIKey(key_id, key_material, key_size) of a stored key
APIKey(key) ==
    [key_id |-> key.key_id, key_material |-> key.key_material, key_size |-> key.key_size]

\* SpecKey(key_ID, key) of an APIKey
SpecKey(k) == [key_ID |-> k.key_id, key |-> k.key_material]

\* what a route answers once the core has returned `core` (not None): it reads
\* settings.include_certificate_extension, which raises AttributeError when
\* Settings has no such attribute, and the route's `except Exception` turns
\* that into 503
RouteAnswer(core) ==
    IF "include_certificate_extension" \notin SettingsAttributes
    THEN [core EXCEPT !.status = 503, !.outcome = "internal_error"]
    ELSE [core EXCEPT !.status = 200,
                      !.body = [i \in 1..Len(core.container) |-> SpecKey(core.container[i])]]

(***************************************************************************)
(* dec_keys: lookup and authorization.                                     *)
(***************************************************************************)
\* next((k for k in all_keys if k.key_id == key_id), None): its position, 0 for None
FindKey(all_keys, key_id) ==
    LET hits == {i \in 1..Len(all_keys) : all_keys[i].key_id = key_id}
    IN  IF hits = {} THEN 0 ELSE CHOOSE i \in hits : \A j \in hits : i <= j

\* SlaveKeyCheck without the test of the slave against slave_sae_ids
SlaveKeyCheck_NoSlaveTest(all_keys, slave_sae_id, master_sae_id, key_id) ==
    LET i == FindKey(all_keys, key_id)
    IN  IF i = 0 THEN "key_not_found"
        ELSE IF all_keys[i].master_sae_id # master_sae_id THEN "master_mismatch"
        ELSE "ok"

\* the loop body of get_keys_for_slave_sae for one key id: why it returns None, or "ok"
SlaveKeyCheck(all_keys, slave_sae_id, master_sae_id, key_id) ==
    LET i == FindKey(all_keys, key_id)
    IN  IF i = 0 THEN "key_not_found"
        ELSE IF slave_sae_id \notin Range(all_keys[i].slave_sae_ids) THEN "slave_not_authorized"
        ELSE IF all_keys[i].master_sae_id # master_sae_id THEN "master_mismatch"
        ELSE "ok"

\* KeyContainer.key_size of a get_keys_for_slave_sae that was asked for no key
EmptyContainerKeySize == 256

\* get_keys_for_slave_sae that skips the ids that fail their check and returns
\* the keys of the others
get_keys_for_slave_sae_Partial(all_keys, slave_sae_id, master_sae_id, key_ids) ==
    LET passing == SelectSeq(key_ids, LAMBDA id :
                       SlaveKeyCheck(all_keys, slave_sae_id, master_sae_id, id) = "ok")
        requested_keys == [i \in 1..Len(passing) |-> all_keys[FindKey(all_keys, passing[i])]]
    IN  [NoResp EXCEPT
            !.outcome = "ok", !.returned = TRUE,
            !.container = [i \in 1..Len(passing) |-> APIKey(requested_keys[i])],
            !.key_size = IF passing = <<>> THEN EmptyContainerKeySize
                         ELSE requested_keys[1].key_size]

\* get_keys_for_slave_sae over the key list it read
get_keys_for_slave_sae(all_keys, slave_sae_id, master_sae_id, key_ids) ==
    LET check == [i \in 1..Len(key_ids) |->
                    SlaveKeyCheck(all_keys, slave_sae_id, master_sae_id, key_ids[i])]
        failed == {i \in 1..Len(key_ids) : check[i] # "ok"}
        requested_keys == [i \in 1..Len(key_ids) |-> all_keys[FindKey(all_keys, key_ids[i])]]
    IN  IF failed # {}
        THEN [NoResp EXCEPT !.outcome = check[CHOOSE i \in failed : \A j \in failed : i <= j]]
        ELSE [NoResp EXCEPT
                !.outcome = "ok", !.returned = TRUE,
                !.container = [i \in 1..Len(key_ids) |-> APIKey(requested_keys[i])],
                !.key_size = IF key_ids = <<>> THEN EmptyContainerKeySize
                             ELSE requested_keys[1].key_size]

\* AuthService.is_sae_authorized over the key list it read: the loop returns at
\* the first key id that is not found (False) or that has sae_id as its master
\* or among its slaves (True); False when the loop ends
is_sae_authorized(all_keys, sae_id, key_ids) ==
    LET decision(i) ==
            LET k == FindKey(all_keys, key_ids[i])
            IN  IF k = 0 THEN "false"
                ELSE IF all_keys[k].master_sae_id = sae_id THEN "true"
                ELSE IF sae_id \in Range(all_keys[k].slave_sae_ids) THEN "true"
                ELSE "next"
        decisive == {i \in 1..Len(key_ids) : decision(i) # "next"}
    IN  IF decisive = {} THEN FALSE
        ELSE decision(CHOOSE i \in decisive : \A j \in decisive : i <= j) = "true"

\* AuthService.is_slave_authorized_for_keys, which the dec_keys route calls:
\* class AuthService does not define it; this is the predicate spec.md 4.4 gives
is_slave_authorized_for_keys(all_keys, slave_sae_id, key_ids, master_sae_id) ==
    \A i \in 1..Len(key_ids) :
        SlaveKeyCheck(all_keys, slave_sae_id, master_sae_id, key_ids[i]) = "ok"

\* the route get_key_with_key_ids over the key list in storage
get_key_with_key_ids(all_keys, r) ==
    IF r.key_ids = <<>> THEN [NoResp EXCEPT !.status = 400, !.outcome = "key_ids_required"]
    ELSE IF "is_slave_authorized_for_keys" \notin AuthServiceMethods
    THEN [NoResp EXCEPT !.status = 503, !.outcome = "internal_error"]
    ELSE IF ~is_slave_authorized_for_keys(all_keys, r.caller, r.key_ids, r.target)
    THEN [NoResp EXCEPT !.status = 401, !.outcome = "not_authorized"]
    ELSE LET core == get_keys_for_slave_sae(all_keys, r.caller, r.target, r.key_ids)
         IN  IF ~core.returned THEN [core EXCEPT !.status = 503]
             ELSE RouteAnswer(core)

(***************************************************************************)
(* The requests the model sends.                                           *)
(***************************************************************************)
\* the (master, slave) pairs and the additional slaves of the enc_keys requests
EncPairs == {<<"SAE_001", "SAE_002">>, <<"SAE_002", "SAE_003">>}
AdditionalVals == {<<>>, <<"SAE_003">>}
\* number and size of an accepted enc_keys body: absent, or given
NumberVals == {Absent, 2}
SizeVals == {Absent, 16}

RECURSIVE SeqsUpTo(_, _)
SeqsUpTo(S, n) ==
    IF n = 0 THEN {<<>>}
    ELSE LET shorter == SeqsUpTo(S, n - 1)
         IN  shorter \cup {Append(s, x) : s \in {t \in shorter : Len(t) = n - 1}, x \in S}

\* the key ids a client can name: those in storage, and 0, which is no key's id
KnownKeyIds == {keys_file[i].key_id : i \in 1..Len(keys_file)} \cup {0}

\* the accepted bodies, and the default body with an empty extension_mandatory list
ValidEncKeysRequests ==
    {[NoReq EXCEPT !.op = "enc_keys", !.caller = p[1], !.target = p[2], !.number = n,
                   !.size = z, !.additional = a] :
        p \in EncPairs, n \in NumberVals, z \in SizeVals, a \in AdditionalVals}
    \cup {[NoReq EXCEPT !.op = "enc_keys", !.caller = "SAE_001", !.target = "SAE_002",
                        !.extension_mandatory_given = TRUE]}

\* one request for every way of breaking one rule: number below 1, number above
\* max_key_per_request, size below 8, size no multiple of 8, size above
\* key_max_size, more additional slaves than max_sae_id_count, a mandatory extension
InvalidEncKeysRequests ==
    LET base == [NoReq EXCEPT !.op = "enc_keys", !.caller = "SAE_001", !.target = "SAE_002"]
    IN  {[base EXCEPT !.number = 0], [base EXCEPT !.number = MaxKeyPerRequest + 1],
         [base EXCEPT !.size = 4], [base EXCEPT !.size = 12],
         [base EXCEPT !.size = KeyMaxSize + 8],
         [base EXCEPT !.additional = [i \in 1..(MaxSaeIdCount + 1) |-> "SAE_003"]],
         [base EXCEPT !.extension_mandatory_given = TRUE,
                      !.extension_mandatory = <<"test_extension">>]}

EncKeysRequests == ValidEncKeysRequests \cup InvalidEncKeysRequests

RetrieveRequests ==
    {[NoReq EXCEPT !.op = "retrieve", !.caller = c, !.target = t, !.key_ids = ids] :
        c \in SAE, t \in {"SAE_001", "SAE_002"}, ids \in SeqsUpTo(KnownKeyIds, MaxKeyIds)}

DecKeysRequests ==
    {[NoReq EXCEPT !.op = "dec_keys", !.caller = c, !.target = t, !.key_ids = ids] :
        c \in SAE, t \in {"SAE_001", "SAE_002"}, ids \in SeqsUpTo(KnownKeyIds, 1)}

StatusRequests ==
    {[NoReq EXCEPT !.op = "status", !.caller = "SAE_001", !.target = "SAE_002"]}

Requests ==
    EncKeysRequests \cup RetrieveRequests \cup DecKeysRequests
        \cup StatusRequests \cup {[NoReq EXCEPT !.op = "refill"]}

\* the requests of the interleaved workers: the default enc_keys body from two
\* masters, and refill_key_pool
ConcRequests ==
    {[NoReq EXCEPT !.op = "enc_keys", !.caller = "SAE_001", !.target = "SAE_002"],
     [NoReq EXCEPT !.op = "enc_keys", !.caller = "SAE_002", !.target = "SAE_003"],
     [NoReq EXCEPT !.op = "refill"]}

(***************************************************************************)
(* The initial state: StorageService._initialize_storage on an empty data  *)
(* directory.                                                              *)
(***************************************************************************)
Init ==
    /\ keys_file = <<>>
    /\ key_pool_file = [current_size |-> 0, max_size |-> KeyPoolSize,
                        key_size |-> KeySize, refill_threshold |-> RefillThreshold]
    /\ sessions_file = <<>>
    /\ sae_registry_file = <<>>
    /\ next_uuid = 0
    /\ pc = [w \in Workers |-> "idle"]
    /\ req = [w \in Workers |-> NoReq]
    /\ loc = [w \in Workers |-> NoLoc]
    /\ resp = [w \in Workers |-> NoResp]
    /\ alloc_log = <<>>

(***************************************************************************)
(* refill_key_pool.                                                        *)
(***************************************************************************)
\* _save_json opens the file with mode 'w', which empties it, and then dumps the
\* data: between the two, keys.json does not hold a JSON document
KeysFileTorn == \E w \in Workers : pc[w] \in {"master_write_keys", "refill_write_keys"}

\* StorageService.get_keys: _load_json returns None for a file that does not
\* parse, and get_keys then returns []
get_keys == IF KeysFileTorn THEN <<>> ELSE keys_file

\* where a handler goes on when refill_key_pool returns
AfterRefill(op) == IF op = "refill" THEN "idle" ELSE "master_get_keys"

RefillResponse(op) ==
    IF op = "refill" THEN [NoResp EXCEPT !.outcome = "ok", !.returned = TRUE] ELSE NoResp

\* refill_key_pool up to its call of get_keys: get_key_pool, the threshold test
\* and generate_keys
RefillBegin(w, op) ==
    LET key_pool == key_pool_file
        keys_to_generate == Max(0, key_pool.max_size - key_pool.current_size)
    IN  IF key_pool.current_size >= key_pool.refill_threshold
        THEN /\ pc' = [pc EXCEPT ![w] = AfterRefill(op)]
             /\ resp' = [resp EXCEPT ![w] = RefillResponse(op)]
             /\ loc' = [loc EXCEPT ![w] = NoLoc]
             /\ UNCHANGED next_uuid
        ELSE \E rnd \in RandomDraws(keys_to_generate, key_pool.key_size) :
             /\ pc' = [pc EXCEPT ![w] = "refill_get_keys"]
             /\ resp' = [resp EXCEPT ![w] = NoResp]
             /\ loc' = [loc EXCEPT ![w] =
                          [NoLoc EXCEPT !.key_pool = key_pool,
                                        !.new_keys = generate_keys(keys_to_generate,
                                                        key_pool.key_size, next_uuid + 1, rnd)]]
             /\ next_uuid' = next_uuid + keys_to_generate

\* refill_key_pool() called on its own
EnsurePoolFilled(w, r) ==
    /\ pc[w] = "idle"
    /\ r.op = "refill"
    /\ req' = [req EXCEPT ![w] = r]
    /\ RefillBegin(w, r.op)
    /\ UNCHANGED <<store, alloc_log>>

\* RefillGetKeys that leaves key_pool.current_size as it was read
RefillGetKeys_NoCount(w) ==
    /\ pc[w] = "refill_get_keys"
    /\ loc' = [loc EXCEPT ![w].all_keys = get_keys \o loc[w].new_keys]
    /\ pc' = [pc EXCEPT ![w] = "refill_save_keys"]
    /\ UNCHANGED <<store, next_uuid, req, resp, alloc_log>>

\* existing_keys = get_keys(); all_keys = existing_keys + new_keys;
\* key_pool.current_size = len(all_keys)
RefillGetKeys(w) ==
    /\ pc[w] = "refill_get_keys"
    /\ LET existing_keys == get_keys
           all_keys == existing_keys \o loc[w].new_keys
       IN  loc' = [loc EXCEPT ![w].all_keys = all_keys,
                              ![w].key_pool.current_size = Len(all_keys)]
    /\ pc' = [pc EXCEPT ![w] = "refill_save_keys"]
    /\ UNCHANGED <<store, next_uuid, req, resp, alloc_log>>

\* save_keys(all_keys)
RefillSaveKeys(w) ==
    /\ pc[w] = "refill_save_keys"
    /\ keys_file' = loc[w].all_keys
    /\ pc' = [pc EXCEPT ![w] = "refill_update_key_pool"]
    /\ UNCHANGED <<sae_registry_file, key_pool_file, sessions_file, next_uuid, req, loc, resp, alloc_log>>

\* RefillUpdateKeyPool that returns without writing key_pool.json
RefillUpdateKeyPool_NoWrite(w) ==
    /\ pc[w] = "refill_update_key_pool"
    /\ pc' = [pc EXCEPT ![w] = AfterRefill(req[w].op)]
    /\ resp' = [resp EXCEPT ![w] = RefillResponse(req[w].op)]
    /\ loc' = [loc EXCEPT ![w] = NoLoc]
    /\ UNCHANGED <<store, next_uuid, req, alloc_log>>

\* update_key_pool(key_pool); return True
RefillUpdateKeyPool(w) ==
    /\ pc[w] = "refill_update_key_pool"
    /\ key_pool_file' = loc[w].key_pool
    /\ pc' = [pc EXCEPT ![w] = AfterRefill(req[w].op)]
    /\ resp' = [resp EXCEPT ![w] = RefillResponse(req[w].op)]
    /\ loc' = [loc EXCEPT ![w] = NoLoc]
    /\ UNCHANGED <<sae_registry_file, keys_file, sessions_file, next_uuid, req, alloc_log>>

(***************************************************************************)
(* enc_keys: the route get_key and get_keys_for_master_sae.                *)
(***************************************************************************)
\* a request arrives: the route's checks, the core's checks, and the start of
\* refill_key_pool
GetKey(w, r) ==
    /\ pc[w] = "idle"
    /\ r.op = "enc_keys"
    /\ req' = [req EXCEPT ![w] = r]
    /\ IF RouteValidation(r) # "ok"
       THEN /\ resp' = [resp EXCEPT ![w] =
                          [NoResp EXCEPT !.status = 400, !.outcome = RouteValidation(r)]]
            /\ UNCHANGED <<pc, loc, next_uuid>>
       ELSE IF CoreValidation(InternalRequest(r)) # "ok"
       THEN /\ resp' = [resp EXCEPT ![w] =
                          [NoResp EXCEPT !.status = 503,
                                         !.outcome = CoreValidation(InternalRequest(r))]]
            /\ UNCHANGED <<pc, loc, next_uuid>>
       ELSE RefillBegin(w, r.op)
    /\ UNCHANGED <<store, alloc_log>>

\* MasterGetKeys that, finding too few unused keys, reads the key list again
\* until another call has refilled the pool
MasterGetKeys_RetriesWhenExhausted(w) ==
    /\ pc[w] = "master_get_keys"
    /\ LET k == InternalRequest(req[w])
           all_keys == get_keys
           available == AvailableKeys(all_keys)
           selected == SelectKeys(available, k.number)
           marked == MarkKeys(all_keys, selected, req[w].caller, req[w].target, k.additional)
           selected_keys == [i \in 1..Len(selected) |-> marked[selected[i]]]
       IN  IF InsufficientKeys(available, k.number)
           THEN UNCHANGED <<pc, resp, loc, next_uuid>>
           ELSE /\ pc' = [pc EXCEPT ![w] = "master_save_keys"]
                /\ loc' = [loc EXCEPT ![w] =
                             [NoLoc EXCEPT !.all_keys = marked,
                                           !.selected_keys = selected_keys,
                                           !.session = NewSession(next_uuid + 1, req[w].caller,
                                                           req[w].target, k.additional,
                                                           selected_keys)]]
                /\ next_uuid' = next_uuid + 1
                /\ UNCHANGED resp
    /\ UNCHANGED <<store, req, alloc_log>>

\* all_keys = get_keys(); selection; marking; the Session object
MasterGetKeys(w) ==
    /\ pc[w] = "master_get_keys"
    /\ LET k == InternalRequest(req[w])
           all_keys == get_keys
           available == AvailableKeys(all_keys)
           selected == SelectKeys(available, k.number)
           marked == MarkKeys(all_keys, selected, req[w].caller, req[w].target, k.additional)
           selected_keys == [i \in 1..Len(selected) |-> marked[selected[i]]]
       IN  IF InsufficientKeys(available, k.number)
           THEN /\ pc' = [pc EXCEPT ![w] = "idle"]
                /\ resp' = [resp EXCEPT ![w] =
                              [NoResp EXCEPT !.status = 503, !.outcome = "insufficient_keys"]]
                /\ loc' = [loc EXCEPT ![w] = NoLoc]
                /\ UNCHANGED next_uuid
           ELSE /\ pc' = [pc EXCEPT ![w] = "master_save_keys"]
                /\ loc' = [loc EXCEPT ![w] =
                             [NoLoc EXCEPT !.all_keys = marked,
                                           !.selected_keys = selected_keys,
                                           !.session = NewSession(next_uuid + 1, req[w].caller,
                                                           req[w].target, k.additional,
                                                           selected_keys)]]
                /\ next_uuid' = next_uuid + 1
                /\ UNCHANGED resp
    /\ UNCHANGED <<store, req, alloc_log>>

\* save_keys(all_keys)
MasterSaveKeys(w) ==
    /\ pc[w] = "master_save_keys"
    /\ keys_file' = loc[w].all_keys
    /\ pc' = [pc EXCEPT ![w] = "master_get_sessions"]
    /\ UNCHANGED <<sae_registry_file, key_pool_file, sessions_file, next_uuid, req, loc, resp, alloc_log>>

\* sessions = get_sessions(); sessions.append(session)
MasterGetSessions(w) ==
    /\ pc[w] = "master_get_sessions"
    /\ loc' = [loc EXCEPT ![w].sessions = Append(sessions_file, loc[w].session)]
    /\ pc' = [pc EXCEPT ![w] = "master_save_sessions"]
    /\ UNCHANGED <<store, next_uuid, req, resp, alloc_log>>

\* save_sessions(sessions); the KeyContainer is returned and the route answers
MasterSaveSessions(w) ==
    /\ pc[w] = "master_save_sessions"
    /\ sessions_file' = loc[w].sessions
    /\ LET k == InternalRequest(req[w])
           api_keys == [i \in 1..Len(loc[w].selected_keys) |-> APIKey(loc[w].selected_keys[i])]
           core == [NoResp EXCEPT !.outcome = "ok", !.returned = TRUE,
                                  !.container = api_keys, !.key_size = k.size]
       IN  /\ resp' = [resp EXCEPT ![w] = RouteAnswer(core)]
           /\ alloc_log' = Append(alloc_log,
                              [master |-> req[w].caller, slave |-> req[w].target,
                               additional |-> k.additional, keys |-> api_keys])
    /\ pc' = [pc EXCEPT ![w] = "idle"]
    /\ loc' = [loc EXCEPT ![w] = NoLoc]
    /\ UNCHANGED <<sae_registry_file, keys_file, key_pool_file, next_uuid, req>>

(***************************************************************************)
(* dec_keys and status.                                                    *)
(***************************************************************************)
\* KeyService.get_keys_for_slave_sae(caller, target, key_ids)
GetKeysForSlaveSae(w, r) ==
    /\ pc[w] = "idle"
    /\ r.op = "retrieve"
    /\ req' = [req EXCEPT ![w] = r]
    /\ resp' = [resp EXCEPT ![w] = get_keys_for_slave_sae(get_keys, r.caller, r.target, r.key_ids)]
    /\ UNCHANGED <<store, next_uuid, pc, loc, alloc_log>>

\* POST /{target}/dec_keys
GetKeyWithKeyIds(w, r) ==
    /\ pc[w] = "idle"
    /\ r.op = "dec_keys"
    /\ req' = [req EXCEPT ![w] = r]
    /\ resp' = [resp EXCEPT ![w] = get_key_with_key_ids(get_keys, r)]
    /\ UNCHANGED <<store, next_uuid, pc, loc, alloc_log>>

\* KeyService.get_status: the dict's available_keys and max_key_pool_size
get_status(keys) ==
    [NoResp EXCEPT !.outcome = "ok", !.returned = TRUE,
                   !.available_keys = Cardinality({i \in 1..Len(keys) : ~keys[i].is_used}),
                   !.max_key_pool_size = key_pool_file.max_size]

\* GetStatus that writes a fresh key_pool.json, as get_key_pool does for a
\* key_pool.json it cannot load
GetStatus_CreatesPool(w, r) ==
    /\ pc[w] = "idle"
    /\ r.op = "status"
    /\ req' = [req EXCEPT ![w] = r]
    /\ resp' = [resp EXCEPT ![w] = RouteAnswer(get_status(get_keys))]
    /\ key_pool_file' = [key_pool_file EXCEPT !.current_size = 0]
    /\ UNCHANGED <<sae_registry_file, keys_file, sessions_file, next_uuid, pc, loc, alloc_log>>

\* GET /{target}/status
GetStatus(w, r) ==
    /\ pc[w] = "idle"
    /\ r.op = "status"
    /\ req' = [req EXCEPT ![w] = r]
    /\ resp' = [resp EXCEPT ![w] = RouteAnswer(get_status(get_keys))]
    /\ UNCHANGED <<store, next_uuid, pc, loc, alloc_log>>

(***************************************************************************)
(* Specifications.                                                         *)
(***************************************************************************)
\* one worker: every handler runs to its end before the next request is taken
Next ==
    \E w \in {1} :
        \/ \E r \in Requests : GetKey(w, r)
        \/ \E r \in Requests : EnsurePoolFilled(w, r)
        \/ \E r \in Requests : GetKeysForSlaveSae(w, r)
        \/ \E r \in Requests : GetKeyWithKeyIds(w, r)
        \/ \E r \in Requests : GetStatus(w, r)
        \/ RefillGetKeys(w)
        \/ RefillSaveKeys(w)
        \/ RefillUpdateKeyPool(w)
        \/ MasterGetKeys(w)
        \/ MasterSaveKeys(w)
        \/ MasterGetSessions(w)
        \/ MasterSaveSessions(w)

Spec == Init /\ [][Next]_vars

\* NumWorkers workers on one data directory, each serving one enc_keys or
\* refilling the pool once, their storage calls interleaved
NextConc ==
    \E w \in Workers :
        \/ \E r \in ConcRequests : req[w] = NoReq /\ GetKey(w, r)
        \/ \E r \in ConcRequests : req[w] = NoReq /\ EnsurePoolFilled(w, r)
        \/ RefillGetKeys(w)
        \/ RefillSaveKeys(w)
        \/ RefillUpdateKeyPool(w)
        \/ MasterGetKeys(w)
        \/ MasterSaveKeys(w)
        \/ MasterGetSessions(w)
        \/ MasterSaveSessions(w)

SpecConc == Init /\ [][NextConc]_vars

\* save_keys, first half: _save_json opens keys.json for writing
SaveKeysOpen(w) ==
    /\ pc[w] \in {"master_save_keys", "refill_save_keys"}
    /\ pc' = [pc EXCEPT ![w] = IF pc[w] = "master_save_keys" THEN "master_write_keys"
                               ELSE "refill_write_keys"]
    /\ UNCHANGED <<store, next_uuid, req, loc, resp, alloc_log>>

\* save_keys, second half: json.dump has written the list and the file is closed
SaveKeysDump(w) ==
    /\ pc[w] \in {"master_write_keys", "refill_write_keys"}
    /\ keys_file' = loc[w].all_keys
    /\ pc' = [pc EXCEPT ![w] = IF pc[w] = "master_write_keys" THEN "master_get_sessions"
                               ELSE "refill_update_key_pool"]
    /\ UNCHANGED <<sae_registry_file, key_pool_file, sessions_file, next_uuid, req, loc, resp, alloc_log>>

\* get_keys_for_slave_sae called by the slave of an allocation that has
\* returned, naming its master and its key ids
AllocatedRetrieveRequests ==
    {[NoReq EXCEPT !.op = "retrieve", !.caller = alloc_log[n].slave,
                   !.target = alloc_log[n].master,
                   !.key_ids = [i \in 1..Len(alloc_log[n].keys) |-> alloc_log[n].keys[i].key_id]] :
        n \in 1..Len(alloc_log)}

\* the workers of SpecConc with the two halves of save_keys as separate steps,
\* and slaves that retrieve the keys allocated to them
NextTorn ==
    \E w \in Workers :
        \/ \E r \in ConcRequests : req[w] = NoReq /\ GetKey(w, r)
        \/ \E r \in ConcRequests : req[w] = NoReq /\ EnsurePoolFilled(w, r)
        \/ \E r \in AllocatedRetrieveRequests : GetKeysForSlaveSae(w, r)
        \/ RefillGetKeys(w)
        \/ RefillUpdateKeyPool(w)
        \/ MasterGetKeys(w)
        \/ SaveKeysOpen(w)
        \/ SaveKeysDump(w)
        \/ MasterGetSessions(w)
        \/ MasterSaveSessions(w)

SpecTorn == Init /\ [][NextTorn]_vars

\* what a file holds after a _save_json of it raised: what it held before (open
\* failed), or no JSON document (json.dump failed after open emptied the file),
\* which get_keys and get_sessions read as []
AfterFailedSave(file) == {file, <<>>}

\* what get_keys_for_master_sae returns from its `except Exception`, and the
\* route's answer to it
StorageErrorResponse == [NoResp EXCEPT !.status = 503, !.outcome = "storage_error"]

\* save_keys(all_keys) of get_keys_for_master_sae raises
MasterSaveKeysFails(w) ==
    /\ pc[w] = "master_save_keys"
    /\ next_uuid <= MaxFaultUuid
    /\ \E left \in AfterFailedSave(keys_file) : keys_file' = left
    /\ pc' = [pc EXCEPT ![w] = "idle"]
    /\ resp' = [resp EXCEPT ![w] = StorageErrorResponse]
    /\ loc' = [loc EXCEPT ![w] = NoLoc]
    /\ UNCHANGED <<sae_registry_file, key_pool_file, sessions_file, next_uuid, req, alloc_log>>

\* save_sessions(sessions) of get_keys_for_master_sae raises
MasterSaveSessionsFails(w) ==
    /\ pc[w] = "master_save_sessions"
    /\ next_uuid <= MaxFaultUuid
    /\ \E left \in AfterFailedSave(sessions_file) : sessions_file' = left
    /\ pc' = [pc EXCEPT ![w] = "idle"]
    /\ resp' = [resp EXCEPT ![w] = StorageErrorResponse]
    /\ loc' = [loc EXCEPT ![w] = NoLoc]
    /\ UNCHANGED <<sae_registry_file, keys_file, key_pool_file, next_uuid, req, alloc_log>>

\* one worker serving enc_keys requests on a storage whose writes can fail
NextFault ==
    \E w \in {1} :
        \/ \E r \in ValidEncKeysRequests : GetKey(w, r)
        \/ RefillGetKeys(w)
        \/ RefillSaveKeys(w)
        \/ RefillUpdateKeyPool(w)
        \/ MasterGetKeys(w)
        \/ MasterSaveKeys(w)
        \/ MasterSaveKeysFails(w)
        \/ MasterGetSessions(w)
        \/ MasterSaveSessions(w)
        \/ MasterSaveSessionsFails(w)

SpecFault == Init /\ [][NextFault]_vars

\* key_pool.json of a pool of ten keys that is refilled below five
ScenarioPool ==
    [current_size |-> 0, max_size |-> 10, key_size |-> KeySize, refill_threshold |-> 5]

\* an empty data directory but for that key_pool.json
InitScenario ==
    /\ keys_file = <<>>
    /\ key_pool_file = ScenarioPool
    /\ sessions_file = <<>>
    /\ sae_registry_file = <<>>
    /\ next_uuid = 0
    /\ pc = [w \in Workers |-> "idle"]
    /\ req = [w \in Workers |-> NoReq]
    /\ loc = [w \in Workers |-> NoLoc]
    /\ resp = [w \in Workers |-> NoResp]
    /\ alloc_log = <<>>

\* enc_keys for three keys of the default size
ScenarioRequests ==
    {[NoReq EXCEPT !.op = "enc_keys", !.caller = "SAE_001", !.target = "SAE_002",
                   !.number = 3, !.size = KeySize]}

\* one worker serving that one request
NextScenario ==
    \E w \in {1} :
        \/ \E r \in ScenarioRequests : req[w] = NoReq /\ GetKey(w, r)
        \/ RefillGetKeys(w)
        \/ RefillSaveKeys(w)
        \/ RefillUpdateKeyPool(w)
        \/ MasterGetKeys(w)
        \/ MasterSaveKeys(w)
        \/ MasterGetSessions(w)
        \/ MasterSaveSessions(w)

SpecScenario == InitScenario /\ [][NextScenario]_vars

\* the requests of the workers of SpecLive: those of SpecConc, an enc_keys for
\* as many keys as the pool holds, status, and get_keys_for_slave_sae by SAE_002
\* for one key id
LiveRequests ==
    ConcRequests \cup StatusRequests
        \cup {[NoReq EXCEPT !.op = "enc_keys", !.caller = "SAE_001", !.target = "SAE_002",
                            !.number = KeyPoolSize]}
        \cup {[NoReq EXCEPT !.op = "retrieve", !.caller = "SAE_002", !.target = "SAE_001",
                            !.key_ids = <<id>>] : id \in KnownKeyIds}

\* the next storage call of the handler worker w is in
HandlerStep(w) ==
    \/ RefillGetKeys(w)
    \/ RefillSaveKeys(w)
    \/ RefillUpdateKeyPool(w)
    \/ MasterGetKeys(w)
    \/ MasterSaveKeys(w)
    \/ MasterGetSessions(w)
    \/ MasterSaveSessions(w)

\* NumWorkers workers on one data directory, each serving one request
NextLive ==
    \E w \in Workers :
        \/ \E r \in LiveRequests : req[w] = NoReq /\ GetKey(w, r)
        \/ \E r \in LiveRequests : req[w] = NoReq /\ EnsurePoolFilled(w, r)
        \/ \E r \in LiveRequests : req[w] = NoReq /\ GetKeysForSlaveSae(w, r)
        \/ \E r \in LiveRequests : req[w] = NoReq /\ GetStatus(w, r)
        \/ RefillGetKeys(w)
        \/ RefillSaveKeys(w)
        \/ RefillUpdateKeyPool(w)
        \/ MasterGetKeys(w)
        \/ MasterSaveKeys(w)
        \/ MasterGetSessions(w)
        \/ MasterSaveSessions(w)

\* a handler is straight-line code run by its own thread or process: a worker
\* that is inside a handler goes on to its next storage call
SpecLive == Init /\ [][NextLive]_vars /\ \A w \in Workers : WF_vars(HandlerStep(w))

\* one worker whose clients send valid enc_keys requests again and again
NextRetry ==
    \E w \in {1} :
        \/ \E r \in ValidEncKeysRequests : GetKey(w, r)
        \/ RefillGetKeys(w)
        \/ RefillSaveKeys(w)
        \/ RefillUpdateKeyPool(w)
        \/ MasterGetKeys(w)
        \/ MasterSaveKeys(w)
        \/ MasterGetSessions(w)
        \/ MasterSaveSessions(w)

\* the server keeps running and the clients keep asking
SpecRetry == Init /\ [][NextRetry]_vars /\ WF_vars(NextRetry)

(***************************************************************************)
(* The SAE registry: AuthService.register_sae and authenticate_client.     *)
(***************************************************************************)
\* the values datetime.utcnow() returns: seconds and microseconds
Times == {[sec |-> 1, micro |-> 0], [sec |-> 2, micro |-> 5]}

\* Optional[datetime] with no value, and the null json.dump writes for it
NoTime == [sec |-> 0, micro |-> 0]
Null == <<>>

\* str(datetime), which json.dump(default=str) writes: the fraction is left out
\* when the microseconds are 0
DatetimeStr(t) == IF t.micro = 0 THEN <<t.sec>> ELSE <<t.sec, t.micro>>

\* the datetime pydantic parses from that text
ParseDatetime(text) == [sec |-> text[1], micro |-> IF Len(text) = 1 THEN 0 ELSE text[2]]

\* str(n) of a positive integer: its decimal digits
RECURSIVE IntStr(_)
IntStr(n) == IF n < 10 THEN <<n>> ELSE Append(IntStr(n \div 10), n % 10)

\* the client certificates: DER bytes that do not parse, or a certificate with
\* its common name, the rest of its subject, its serial number and whether the
\* CA of the KME signed it
Malformed == [cn |-> None, org |-> None, serial_number |-> 0, signed_by_ca |-> FALSE]

RegistrySae == {"SAE_001", "SAE_002"}

Certificates ==
    {Malformed} \cup
    {[cn |-> cn, org |-> "Lab", serial_number |-> 7, signed_by_ca |-> TRUE] : cn \in RegistrySae}
    \cup
    {[cn |-> cn, org |-> "Ops", serial_number |-> 12, signed_by_ca |-> TRUE] : cn \in RegistrySae}
    \cup
    {[cn |-> cn, org |-> "Lab", serial_number |-> 12, signed_by_ca |-> FALSE] : cn \in RegistrySae}

\* str(cert.subject)
SubjectStr(cert) == <<"CN", cert.cn, "O", cert.org>>

\* SAERegistry(sae_id, certificate_subject, certificate_serial) at time `now`
NewSaeRegistry(sae_id, subject, serial, now) ==
    [sae_id |-> sae_id, certificate_subject |-> subject, certificate_serial |-> serial,
     registered_at |-> now, is_active |-> TRUE, last_seen |-> NoTime]

\* save_sae_registry: sae.dict() dumped with default=str
SaveSaeRegistry(sae_registry) ==
    [i \in 1..Len(sae_registry) |->
        [sae_registry[i] EXCEPT
            !.registered_at = DatetimeStr(@),
            !.last_seen = IF @ = NoTime THEN Null ELSE DatetimeStr(@)]]

\* get_sae_registry: SAERegistry(**sae_data) of every record of the file
get_sae_registry ==
    [i \in 1..Len(sae_registry_file) |->
        [sae_registry_file[i] EXCEPT
            !.registered_at = ParseDatetime(@),
            !.last_seen = IF @ = Null THEN NoTime ELSE ParseDatetime(@)]]

\* the first record of the registry with this sae_id: its position, 0 for None
FindSae(sae_registry, sae_id) ==
    LET hits == {i \in 1..Len(sae_registry) : sae_registry[i].sae_id = sae_id}
    IN  IF hits = {} THEN 0 ELSE CHOOSE i \in hits : \A j \in hits : i <= j

\* the registry register_sae saves, at time `now`
Upsert(sae_registry, sae_id, client_cert, now) ==
    LET subject == SubjectStr(client_cert)
        serial == IntStr(client_cert.serial_number)
        existing_sae == FindSae(sae_registry, sae_id)
    IN  IF existing_sae # 0
        THEN [sae_registry EXCEPT ![existing_sae].certificate_subject = subject,
                                  ![existing_sae].certificate_serial = serial,
                                  ![existing_sae].last_seen = now]
        ELSE Append(sae_registry, NewSaeRegistry(sae_id, subject, serial, now))

\* register_sae that appends a new record whether or not the SAE is registered
RegisterSae_AlwaysAppends(sae_id, client_cert) ==
    /\ client_cert # Malformed
    /\ \E now \in Times :
          sae_registry_file' = SaveSaeRegistry(Append(get_sae_registry,
              NewSaeRegistry(sae_id, SubjectStr(client_cert),
                             IntStr(client_cert.serial_number), now)))
    /\ Len(sae_registry_file) < 3
    /\ UNCHANGED <<keys_file, key_pool_file, sessions_file, next_uuid, pc, req, loc, resp,
                   alloc_log>>

\* AuthService.register_sae(sae_id, client_cert), run to its end; a certificate
\* that does not parse raises, False is returned and nothing is saved
RegisterSae(sae_id, client_cert) ==
    /\ client_cert # Malformed
    /\ \E now \in Times :
          sae_registry_file' = SaveSaeRegistry(Upsert(get_sae_registry, sae_id, client_cert, now))
    /\ UNCHANGED <<keys_file, key_pool_file, sessions_file, next_uuid, pc, req, loc, resp,
                   alloc_log>>

\* AuthService.authenticate_client(client_cert): verify_client_certificate,
\* extract_sae_id_from_cert, register_sae; (False, None) leaves the registry alone
AuthenticateClient(client_cert) ==
    /\ client_cert # Malformed
    /\ client_cert.signed_by_ca
    /\ RegisterSae(client_cert.cn, client_cert)

\* the calls of the registry, one after the other
NextRegistry ==
    \/ \E sae_id \in RegistrySae : \E client_cert \in Certificates :
           RegisterSae(sae_id, client_cert)
    \/ \E client_cert \in Certificates : AuthenticateClient(client_cert)

SpecRegistry == Init /\ [][NextRegistry]_vars

(***************************************************************************)
(* Authentication: middleware.authenticate_client in front of the routes.  *)
(***************************************************************************)
\* Settings.allow_header_auth, ALLOW_HEADER_AUTH not set
AllowHeaderAuth == FALSE

\* the HTTPException(status_code=401) authenticate_client raises
Http401 == "HTTP_401"

\* get_nginx_certificate_info: the dict (TRUE) or None (FALSE)
get_nginx_certificate_info(headers) ==
    headers.client_verified = "SUCCESS" /\ headers.client_dn # <<>>

\* the loop over dn.split(','): the value of the first part that starts with
\* 'CN=', "" when there is none
CommonName(dn) ==
    LET hits == {i \in 1..Len(dn) : dn[i][1] = "CN"}
    IN  IF hits = {} THEN "" ELSE dn[CHOOSE i \in hits : \A j \in hits : i <= j][2]

\* middleware.authenticate_client: the SAE id it returns, or Http401; it reads
\* no setting
authenticate_client(headers) ==
    IF get_nginx_certificate_info(headers)
    THEN IF CommonName(headers.client_dn) # "" THEN CommonName(headers.client_dn)
         ELSE Http401
    ELSE IF headers.x_sae_id # None /\ headers.x_sae_id # "" THEN headers.x_sae_id
    ELSE Http401

\* the X-Client-DN values sent
DistinguishedNames ==
    {<<>>, <<<<"CN", "SAE_001">>, <<"OU", "Lab">>>>, <<<<"OU", "Lab">>>>,
     <<<<"CN", "">>, <<"OU", "Lab">>>>}

\* the headers sent
Headers ==
    [client_verified : {None, "SUCCESS", "FAILED"}, client_dn : DistinguishedNames,
     x_sae_id : {None, "SAE_003"}]

\* the requests sent with them: status, enc_keys with the default body,
\* dec_keys for one key id
AuthRequests ==
    {[NoReq EXCEPT !.op = "status", !.target = "SAE_002"],
     [NoReq EXCEPT !.op = "enc_keys", !.target = "SAE_002"]}
    \cup {[NoReq EXCEPT !.op = "dec_keys", !.target = "SAE_001", !.key_ids = <<id>>] :
             id \in KnownKeyIds}

\* a route called with these headers: authenticate_client first, whose
\* HTTPException the route re-raises, then the route as the SAE it returned
Route(w, headers, r) ==
    LET sae_id == authenticate_client(headers)
        sent == [r EXCEPT !.headers = headers]
    IN  IF sae_id = Http401
        THEN /\ pc[w] = "idle"
             /\ req' = [req EXCEPT ![w] = sent]
             /\ resp' = [resp EXCEPT ![w] =
                           [NoResp EXCEPT !.status = 401, !.outcome = "unauthenticated"]]
             /\ UNCHANGED <<store, next_uuid, pc, loc, alloc_log>>
        ELSE \/ GetKey(w, [sent EXCEPT !.caller = sae_id])
             \/ GetStatus(w, [sent EXCEPT !.caller = sae_id])
             \/ GetKeyWithKeyIds(w, [sent EXCEPT !.caller = sae_id])

\* one worker serving requests that arrive with any of the headers
NextAuth ==
    \E w \in {1} :
        \/ \E headers \in Headers : \E r \in AuthRequests : Route(w, headers, r)
        \/ RefillGetKeys(w)
        \/ RefillSaveKeys(w)
        \/ RefillUpdateKeyPool(w)
        \/ MasterGetKeys(w)
        \/ MasterSaveKeys(w)
        \/ MasterGetSessions(w)
        \/ MasterSaveSessions(w)

SpecAuth == Init /\ [][NextAuth]_vars

(***************************************************************************)
(* Properties.                                                             *)
(***************************************************************************)
\* the key ids of a sequence of APIKey records
KeyIdsOf(api_keys) == {api_keys[i].key_id : i \in 1..Len(api_keys)}

KeyIdSeqOf(api_keys) == [i \in 1..Len(api_keys) |-> api_keys[i].key_id]

\* the slave set of an allocation
SlavesOf(e) == {e.slave} \cup Range(e.additional)

\* worker w has answered its request and has taken no other since
Answered(w) == pc[w] = "idle" /\ resp[w] # NoResp

\* the number of keys of a key list that are not marked used
UnusedCount(keys) == Cardinality({i \in 1..Len(keys) : ~keys[i].is_used})

\* the bits of key material a base64 text carries
MaterialBits(text) == 8 * Len(B64Decode(text))

\* an enc_keys request breaks a validation rule of allocate: count < 1, size < 8
\* or no multiple of 8, count above max-per-request, size outside [min, max],
\* more additional slaves than max-SAE-count
ViolatesValidation(r) ==
    \/ r.number # Absent /\ r.number < 1
    \/ r.number # Absent /\ r.number > MaxKeyPerRequest
    \/ r.size # Absent /\ (r.size < 8 \/ r.size % 8 # 0)
    \/ r.size # Absent /\ (r.size < KeyMinSize \/ r.size > KeyMaxSize)
    \/ Len(r.additional) > MaxSaeIdCount

\* C1: for every interleaving of allocate calls, no key id that one allocate
\* call returned is returned by a different allocate call.
C1_NoKeyReturnedTwice ==
    \A i \in 1..Len(alloc_log) : \A j \in 1..Len(alloc_log) :
        i # j => KeyIdsOf(alloc_log[i].keys) \cap KeyIdsOf(alloc_log[j].keys) = {}

\* C2: a key record that is marked used keeps its master_sae_id and its
\* slave_sae_ids in every later state, whatever calls follow.
C2_UsedKeysKeepOwners ==
    [][\A i \in 1..Len(keys_file) :
          keys_file[i].is_used =>
              \E j \in 1..Len(keys_file') :
                  /\ keys_file'[j].key_id = keys_file[i].key_id
                  /\ keys_file'[j].master_sae_id = keys_file[i].master_sae_id
                  /\ keys_file'[j].slave_sae_ids = keys_file[i].slave_sae_ids]_vars

\* C2 witness: a second allocation, by another master, has been made after key 1
\* was marked used, and key 1 still belongs to the first.
C2_Witness ==
    /\ Len(alloc_log) = 2
    /\ alloc_log[1].master # alloc_log[2].master
    /\ Len(keys_file) >= 2
    /\ keys_file[1].is_used /\ keys_file[2].is_used
    /\ keys_file[1].master_sae_id = alloc_log[1].master

\* C3: whenever a retrieval returns key material, every key it returns was
\* allocated by the named master to a slave set that holds the requester, and
\* the stored record of every requested id says so.
C3_RetrieveOnlyOwnKeys ==
    \A w \in Workers :
        (req[w].op \in {"retrieve", "dec_keys"} /\ resp[w].returned) =>
            /\ KeyIdSeqOf(resp[w].container) = req[w].key_ids
            /\ \A i \in 1..Len(resp[w].container) :
                 /\ \E n \in 1..Len(alloc_log) :
                      /\ alloc_log[n].master = req[w].target
                      /\ req[w].caller \in SlavesOf(alloc_log[n])
                      /\ \E j \in 1..Len(alloc_log[n].keys) :
                             alloc_log[n].keys[j] = resp[w].container[i]
                 /\ \E m \in 1..Len(keys_file) :
                      /\ keys_file[m].key_id = req[w].key_ids[i]
                      /\ req[w].caller \in Range(keys_file[m].slave_sae_ids)
                      /\ keys_file[m].master_sae_id = req[w].target

\* C3 witness: one master has allocated keys to two different slave sets and a
\* slave of the first has retrieved its key.
C3_Witness ==
    /\ Len(alloc_log) = 2
    /\ alloc_log[1].master = alloc_log[2].master
    /\ SlavesOf(alloc_log[1]) # SlavesOf(alloc_log[2])
    /\ req[1].op = "retrieve" /\ resp[1].returned
    /\ req[1].key_ids = KeyIdSeqOf(alloc_log[1].keys)
    /\ req[1].caller \in SlavesOf(alloc_log[1])

\* C4: after allocate(M, S, ...) returned K, the dec_keys request of S naming M
\* for K succeeds and carries the material allocate returned.
C4_DecKeysReturnsAllocatedMaterial ==
    \A w \in Workers : \A n \in 1..Len(alloc_log) :
        (/\ Answered(w) /\ req[w].op = "dec_keys"
         /\ req[w].caller = alloc_log[n].slave
         /\ req[w].target = alloc_log[n].master
         /\ req[w].key_ids = KeyIdSeqOf(alloc_log[n].keys)) =>
            /\ resp[w].status = 200
            /\ resp[w].body = [i \in 1..Len(alloc_log[n].keys) |-> SpecKey(alloc_log[n].keys[i])]

\* C5: for a key allocated by M to the slave set SS, a dec_keys request by X not
\* in SS naming M, or by S in SS naming Y # M, is answered 401 and carries no
\* material.
C5_UnauthorizedDecKeysIs401 ==
    \A w \in Workers : \A n \in 1..Len(alloc_log) :
        (/\ Answered(w) /\ req[w].op = "dec_keys"
         /\ Len(req[w].key_ids) = 1
         /\ req[w].key_ids[1] \in KeyIdsOf(alloc_log[n].keys)
         /\ \/ req[w].caller \notin SlavesOf(alloc_log[n]) /\ req[w].target = alloc_log[n].master
            \/ req[w].caller \in SlavesOf(alloc_log[n]) /\ req[w].target # alloc_log[n].master) =>
            /\ resp[w].status = 401
            /\ resp[w].body = <<>> /\ resp[w].container = <<>>

\* C6: after allocate(M, S, additional = A) returned K, the retrieval of K from
\* M by any identity of A succeeds and returns the keys allocate returned.
C6_AdditionalSlavesRetrieve ==
    \A w \in Workers : \A n \in 1..Len(alloc_log) :
        (/\ Answered(w) /\ req[w].op = "retrieve"
         /\ req[w].caller \in Range(alloc_log[n].additional)
         /\ req[w].target = alloc_log[n].master
         /\ req[w].key_ids = KeyIdSeqOf(alloc_log[n].keys)) =>
            /\ resp[w].returned
            /\ resp[w].container = alloc_log[n].keys

\* C6 witness: an additional slave that is not the primary slave has retrieved
\* the keys of its allocation.
C6_Witness ==
    \E n \in 1..Len(alloc_log) :
        /\ req[1].op = "retrieve" /\ Answered(1) /\ resp[1].returned
        /\ req[1].caller \in Range(alloc_log[n].additional)
        /\ req[1].caller # alloc_log[n].slave
        /\ req[1].target = alloc_log[n].master
        /\ req[1].key_ids = KeyIdSeqOf(alloc_log[n].keys)
        /\ Len(req[1].key_ids) = 2

\* C7: every allocate that succeeds returns exactly `number` keys, each with
\* exactly `size` bits of material, for every accepted size.
C7_AllocateReturnsNumberKeysOfSize ==
    \A w \in Workers :
        (Answered(w) /\ req[w].op = "enc_keys" /\ resp[w].returned) =>
            /\ Len(resp[w].container) = InternalRequest(req[w]).number
            /\ \A i \in 1..Len(resp[w].container) :
                   MaterialBits(resp[w].container[i].key_material) = InternalRequest(req[w]).size

\* C8: when fewer than `number` unused keys are in storage after the refill
\* step, allocate ends there, answered 503, with no key marked, no owner field
\* changed, no session recorded and no material returned.
C8_ExhaustionIsAllOrNothing ==
    [][\A w \in Workers :
          (/\ pc[w] = "master_get_keys" /\ pc'[w] # "master_get_keys"
           /\ UnusedCount(keys_file) < InternalRequest(req[w]).number) =>
              /\ pc'[w] = "idle"
              /\ resp'[w].status = 503 /\ ~resp'[w].returned
              /\ resp'[w].container = <<>> /\ resp'[w].body = <<>>
              /\ store' = store
              /\ alloc_log' = alloc_log]_vars

\* C8 witness: two keys were asked for while one unused key was in storage; the
\* request was refused and the key is still unused.
C8_Witness ==
    /\ Answered(1) /\ req[1].op = "enc_keys" /\ req[1].number = 2
    /\ resp[1].outcome = "insufficient_keys"
    /\ UnusedCount(keys_file) = 1
    /\ Len(sessions_file) = 1

\* C9: an allocate call that breaks a validation rule ends at once and leaves
\* storage as it was: no key generated, marked or removed, the pool record
\* unchanged, no session added.
C9_RejectedAllocateChangesNothing ==
    [][\A w \in Workers :
          (/\ pc[w] = "idle"
           /\ <<req[w], resp[w], pc[w]>> # <<req'[w], resp'[w], pc'[w]>>
           /\ req'[w].op = "enc_keys" /\ ViolatesValidation(req'[w])) =>
              /\ pc'[w] = "idle"
              /\ ~resp'[w].returned
              /\ store' = store
              /\ next_uuid' = next_uuid
              /\ alloc_log' = alloc_log]_vars

\* C9 witness: a request for more keys than max_key_per_request was refused
\* while storage held an unused key.
C9_Witness ==
    /\ Answered(1) /\ req[1].op = "enc_keys"
    /\ req[1].number > MaxKeyPerRequest
    /\ ~resp[1].returned
    /\ UnusedCount(keys_file) = 1
    /\ Len(keys_file) = 2

\* C10: every allocate call that breaks a validation rule is answered 400.
C10_ValidationIs400 ==
    \A w \in Workers :
        (Answered(w) /\ req[w].op = "enc_keys" /\ ViolatesValidation(req[w])) =>
            resp[w].status = 400

\* worker w has read the key list (get_keys) and has not yet written it back
\* (save_keys): the select-mark-persist of an allocate, or the
\* read-append-write of a refill
InCriticalSection(w) == pc[w] \in {"master_save_keys", "refill_save_keys"}

\* C11: in every reachable state at most one in-flight allocate or refill is
\* between its read of the key list and its write-back of it.
C11_MutualExclusion ==
    \A v \in Workers : \A w \in Workers :
        (InCriticalSection(v) /\ InCriticalSection(w)) => v = w

\* C12: a retrieval by the slave S of the keys K that an allocate of M to S has
\* returned, started after that allocate returned, never fails because a key of
\* K is unknown, whatever other allocate and refill calls are rewriting the key
\* list meanwhile.
C12_AllocatedKeyNeverUnknown ==
    \A w \in Workers :
        (Answered(w) /\ req[w] \in AllocatedRetrieveRequests) =>
            resp[w].outcome # "key_not_found"

\* the key with this id is listed in a session of the ledger
HasSession(key_id) ==
    \E n \in 1..Len(sessions_file) : key_id \in Range(sessions_file[n].key_ids)

\* C13: after an allocate that failed in a persistence step, the store holds the
\* whole allocation or none of it: no key is marked used without a session that
\* lists it.
C13_FailedAllocateIsAllOrNothing ==
    \A w \in Workers :
        (Answered(w) /\ req[w].op = "enc_keys" /\ resp[w].outcome = "storage_error") =>
            \A i \in 1..Len(keys_file) : keys_file[i].is_used => HasSession(keys_file[i].key_id)

\* C14: a call of ensurePoolFilled generates keys exactly when the number of
\* unused keys in the store is below refill_threshold, then generates max_size
\* minus current_size unused keys and appends them to the stored list; with the
\* unused count at or above the threshold it changes nothing.
C14_RefillExactlyWhenUnusedBelowThreshold ==
    [][\A w \in Workers :
          /\ EnsurePoolFilled(w, [NoReq EXCEPT !.op = "refill"]) =>
                IF UnusedCount(keys_file) < key_pool_file.refill_threshold
                THEN /\ pc'[w] = "refill_get_keys"
                     /\ Len(loc'[w].new_keys) = key_pool_file.max_size - key_pool_file.current_size
                     /\ \A i \in 1..Len(loc'[w].new_keys) : ~loc'[w].new_keys[i].is_used
                ELSE pc'[w] = "idle" /\ loc'[w].new_keys = <<>>
          /\ (req[w].op = "refill" /\ RefillSaveKeys(w)) =>
                keys_file' = keys_file \o loc[w].new_keys]_vars

\* the number of keys of a key list that are marked used
UsedCount(keys) == Cardinality({i \in 1..Len(keys) : keys[i].is_used})

\* C15: from an empty store with max_size = 10 and refill_threshold = 5, an
\* allocate of 3 keys of the default size refills the pool to 10 key records,
\* returns 3 keys and leaves 7 unused and 3 used keys.
C15_ScenarioRefillThenAllocate ==
    Answered(1) =>
        /\ resp[1].returned /\ Len(resp[1].container) = 3
        /\ Len(keys_file) = 10
        /\ UnusedCount(keys_file) = 7
        /\ UsedCount(keys_file) = 3
        /\ key_pool_file.current_size = 10

\* C15 witness: the request for three keys has been answered with keys.
C15_Witness ==
    /\ Answered(1) /\ req[1].op = "enc_keys" /\ req[1].number = 3
    /\ resp[1].returned
    /\ Len(keys_file) = 10

\* C16: ensurePoolFilled is idempotent: a call of it that follows a completed
\* call of it, with no other operation in between, returns at once and leaves
\* the key records and current_size as the first call left them.
C16_RefillIdempotent ==
    [][\A w \in Workers :
          (/\ Answered(w) /\ req[w].op = "refill"
           /\ EnsurePoolFilled(w, [NoReq EXCEPT !.op = "refill"])) =>
              /\ pc'[w] = "idle"
              /\ keys_file' = keys_file
              /\ key_pool_file' = key_pool_file
              /\ next_uuid' = next_uuid]_vars

\* C16 witness: a call of ensurePoolFilled on the empty store has filled the
\* pool and has returned.
C16_Witness ==
    /\ Answered(1) /\ req[1].op = "refill"
    /\ alloc_log = <<>>
    /\ Len(keys_file) = KeyPoolSize
    /\ key_pool_file.current_size = KeyPoolSize

\* no worker is inside a handler
Quiescent == \A w \in Workers : pc[w] = "idle"

\* C17: for every interleaving of ensurePoolFilled executions, standalone or as
\* the first step of allocate calls, the store never holds more than max_size
\* key records, no stored key is lost, and current_size counts every stored key
\* once.
C17_ConcurrentRefillsCountOnce ==
    /\ [](Len(keys_file) <= key_pool_file.max_size)
    /\ [](Quiescent => key_pool_file.current_size = Len(keys_file))
    /\ [][\A i \in 1..Len(keys_file) :
             \E j \in 1..Len(keys_file') : keys_file'[j].key_id = keys_file[i].key_id]_vars

C19_StatusAlwaysSucceeds ==
    \A w \in Workers :
        (Answered(w) /\ req[w].op = "status") =>
            resp[w].status = 200 /\ resp[w].outcome = "ok"

\* retrieve's own check: every id exists, has the slave among its slave_sae_ids
\* and has the master as its master_sae_id
RetrievePasses(all_keys, slave_sae_id, master_sae_id, key_ids) ==
    \A i \in 1..Len(key_ids) :
        SlaveKeyCheck(all_keys, slave_sae_id, master_sae_id, key_ids[i]) = "ok"

\* C20: for every state of the store and every slave, master and non-empty
\* list of key ids, the authorization pre-check returns true if and only if
\* retrieve's own check passes.
C20_PreCheckIsRetrieveCheck ==
    \A slave \in SAE : \A master \in SAE :
        \A key_ids \in SeqsUpTo(KnownKeyIds, MaxKeyIds) \ {<<>>} :
            is_sae_authorized(keys_file, slave, key_ids)
                <=> RetrievePasses(keys_file, slave, master, key_ids)

\* some id of key_ids is the id of no stored key
NamesUnknownKey(all_keys, key_ids) ==
    \E i \in 1..Len(key_ids) : FindKey(all_keys, key_ids[i]) = 0

\* C21: whenever some id of the list is the id of no stored key, the
\* authorization pre-check returns false, and a dec_keys request that names an
\* unknown key id is answered with the denial (401), not an internal error.
C21_UnknownKeyIsDenied ==
    /\ \A sae \in SAE : \A key_ids \in SeqsUpTo(KnownKeyIds, MaxKeyIds) :
           NamesUnknownKey(keys_file, key_ids) => ~is_sae_authorized(keys_file, sae, key_ids)
    /\ \A w \in {1} :
           (req[w].op = "dec_keys" /\ NamesUnknownKey(keys_file, req[w].key_ids))
               => resp[w].status = 401

SessionsOf(key_id) ==
    {n \in 1..Len(sessions_file) : key_id \in Range(sessions_file[n].key_ids)}

\* C23: whenever no allocate is in progress, every key record marked used is
\* listed in exactly one session of the ledger, and that session has the key's
\* master and slaves; every allocate that succeeds appends exactly one session,
\* whose key ids are the ids it returns; and no step changes or removes a
\* session the ledger already holds.
C23_OneSessionPerUsedKey ==
    /\ [](Quiescent =>
            \A i \in 1..Len(keys_file) : keys_file[i].is_used =>
                /\ Cardinality(SessionsOf(keys_file[i].key_id)) = 1
                /\ \A n \in SessionsOf(keys_file[i].key_id) :
                       /\ sessions_file[n].master_sae_id = keys_file[i].master_sae_id
                       /\ sessions_file[n].slave_sae_ids = keys_file[i].slave_sae_ids)
    /\ [][\A w \in Workers : MasterSaveSessions(w) =>
             /\ Len(sessions_file') = Len(sessions_file) + 1
             /\ sessions_file'[Len(sessions_file')].key_ids
                    = KeyIdSeqOf(alloc_log'[Len(alloc_log')].keys)]_vars
    /\ [][/\ Len(sessions_file') >= Len(sessions_file)
          /\ \A n \in 1..Len(sessions_file) : sessions_file'[n] = sessions_file[n]]_vars

\* C24: in every state in which no operation is in progress, current_size of
\* the pool equals the number of key records in the store, used and unused,
\* after any sequence of refills and allocations.
C24_CurrentSizeIsRecordCount ==
    Quiescent => key_pool_file.current_size = Len(keys_file)

\* C24 witness: the pool has been refilled, keys have been allocated from it,
\* and no operation is in progress.
C24_Witness ==
    /\ Quiescent
    /\ Len(keys_file) = KeyPoolSize
    /\ UsedCount(keys_file) >= 1 /\ UnusedCount(keys_file) >= 1
    /\ Len(alloc_log) >= 1

\* the number of storage calls a handler at this position has left, at most
StepsLeft(position) ==
    CASE position = "idle" -> 0
      [] position = "master_save_sessions" -> 1
      [] position = "master_get_sessions" -> 2
      [] position = "master_save_keys" -> 3
      [] position = "master_get_keys" -> 4
      [] position = "refill_update_key_pool" -> 5
      [] position = "refill_save_keys" -> 6
      [] position = "refill_get_keys" -> 7

\* C25: every allocate, retrieve and status call ends, with a result or an
\* error, after a bounded number of steps: each step of a handler leaves it with
\* fewer steps to go, a handler's next step never waits for another worker, a
\* call that has ended has its answer, and an allocate that finds too few
\* unused keys returns the exhaustion failure in that very step.
C25_CallsTerminate ==
    /\ \A w \in Workers : (pc[w] # "idle") ~> (pc[w] = "idle")
    /\ [](\A w \in Workers : pc[w] # "idle" => ENABLED HandlerStep(w))
    /\ [](\A w \in Workers : (pc[w] = "idle" /\ req[w] # NoReq) => resp[w].outcome # "none")
    /\ [][\A w \in Workers :
             /\ (pc[w] # "idle" /\ HandlerStep(w)) => StepsLeft(pc'[w]) < StepsLeft(pc[w])
             /\ (/\ MasterGetKeys(w)
                 /\ InsufficientKeys(AvailableKeys(get_keys), InternalRequest(req[w]).number))
                    => /\ pc'[w] = "idle"
                       /\ resp'[w].outcome = "insufficient_keys"
                       /\ store' = store]_vars

\* C25 witness: two calls have ended, an allocate that took every key of the
\* pool and an allocate that found the pool exhausted.
C25_Witness ==
    /\ Quiescent
    /\ \E v \in Workers : \E w \in Workers :
          /\ req[v].op = "enc_keys" /\ resp[v].returned
          /\ req[w].op = "enc_keys" /\ resp[w].outcome = "insufficient_keys"

\* C26: pool exhaustion is transient: whenever an allocate has failed for want
\* of unused keys, also when every stored key is used, the valid allocate
\* requests (count not above max_size) that the callers keep sending lead to an
\* allocate that succeeds.
C26_ExhaustionIsTransient ==
    (pc[1] = "idle" /\ resp[1].outcome = "insufficient_keys")
        ~> (pc[1] = "idle" /\ req[1].op = "enc_keys" /\ resp[1].returned)

\* the ids the registry holds records for
RegisteredIds(sae_registry) == {sae_registry[i].sae_id : i \in 1..Len(sae_registry)}

\* C27: the SAE registry holds exactly one record per id that was upserted: the
\* first upsert of an id appends its record, every later upsert of that id puts
\* the subject, the serial and last_seen of the call into that record and leaves
\* registered_at and the records of all other ids as they were.
C27_UpsertKeepsOneRecordPerId ==
    /\ [](\A i \in 1..Len(sae_registry_file) : \A j \in 1..Len(sae_registry_file) :
             sae_registry_file[i].sae_id = sae_registry_file[j].sae_id => i = j)
    /\ [][\A sae_id \in RegistrySae : \A client_cert \in Certificates :
             RegisterSae(sae_id, client_cert) =>
                LET before == get_sae_registry
                    after == [i \in 1..Len(sae_registry_file') |->
                                [sae_registry_file'[i] EXCEPT
                                    !.registered_at = ParseDatetime(@),
                                    !.last_seen = IF @ = Null THEN NoTime
                                                  ELSE ParseDatetime(@)]]
                    at == FindSae(before, sae_id)
                IN  /\ RegisteredIds(after) = RegisteredIds(before) \cup {sae_id}
                    /\ IF at = 0
                       THEN /\ Len(after) = Len(before) + 1
                            /\ after[Len(after)].sae_id = sae_id
                            /\ after[Len(after)].certificate_subject = SubjectStr(client_cert)
                            /\ after[Len(after)].certificate_serial
                                   = IntStr(client_cert.serial_number)
                            /\ after[Len(after)].registered_at \in Times
                            /\ \A i \in 1..Len(before) : after[i] = before[i]
                       ELSE /\ Len(after) = Len(before)
                            /\ after[at].sae_id = sae_id
                            /\ after[at].certificate_subject = SubjectStr(client_cert)
                            /\ after[at].certificate_serial = IntStr(client_cert.serial_number)
                            /\ after[at].last_seen \in Times
                            /\ after[at].registered_at = before[at].registered_at
                            /\ \A i \in 1..Len(before) : i # at => after[i] = before[i]]_vars

\* C27 witness: two ids are registered, and the record of the first has been
\* updated by a later upsert with a certificate of another serial number.
C27_Witness ==
    /\ Len(sae_registry_file) = 2
    /\ get_sae_registry[1].last_seen # NoTime
    /\ get_sae_registry[1].last_seen # get_sae_registry[1].registered_at
    /\ get_sae_registry[1].certificate_serial = IntStr(12)
    /\ get_sae_registry[2].last_seen = NoTime

\* C28: once a status, enc_keys or dec_keys request of a caller the
\* authentication step accepted has been taken, the SAE registry holds a record
\* for that caller.
C28_AuthenticatedCallerIsRegistered ==
    \A w \in {1} :
        req[w].op \in {"status", "enc_keys", "dec_keys"}
            => req[w].caller \in RegisteredIds(sae_registry_file)

\* C29: an enc_keys request without `number` allocates exactly one key, one
\* without `size` allocates keys of the default size, and the answer to an empty
\* body carries exactly one key of the default size.
C29_DefaultsOfEncKeys ==
    \A w \in {1} :
        (Answered(w) /\ req[w].op = "enc_keys" /\ resp[w].returned) =>
            /\ req[w].number = Absent => Len(resp[w].container) = 1
            /\ req[w].size = Absent =>
                   \A i \in 1..Len(resp[w].container) :
                       /\ resp[w].container[i].key_size = KeySize
                       /\ MaterialBits(resp[w].container[i].key_material) = KeySize
            /\ (req[w].number = Absent /\ req[w].size = Absent /\ req[w].additional = <<>>) =>
                   /\ resp[w].status = 200
                   /\ Len(resp[w].body) = 1
                   /\ MaterialBits(resp[w].body[1].key) = KeySize

\* the enc_keys requests whose body carries an extension_mandatory list
ExtensionRequests == {r \in EncKeysRequests : r.extension_mandatory_given}

\* C30: an enc_keys request with a non-empty extension_mandatory list is
\* answered 400 in its first step, before any refill or allocation: no key is
\* generated or marked used and no session is recorded; a request with an empty
\* extension_mandatory list is treated as the same request without the list.
C30_MandatoryExtensionRejected ==
    [][\A w \in {1} : \A r \in ExtensionRequests :
          GetKey(w, r) =>
             IF r.extension_mandatory # <<>>
             THEN /\ resp'[w].status = 400
                  /\ pc'[w] = "idle"
                  /\ store' = store
                  /\ next_uuid' = next_uuid
                  /\ alloc_log' = alloc_log
             ELSE LET absent == [r EXCEPT !.extension_mandatory_given = FALSE]
                  IN  /\ RouteValidation(r) = RouteValidation(absent)
                      /\ InternalRequest(r) = InternalRequest(absent)
                      /\ resp'[w].status # 400
                      /\ pc'[w] \in {"refill_get_keys", "master_get_keys"}]_vars

\* C30 witness: a request with a mandatory extension has been answered 400 on
\* a store that earlier requests have filled and allocated from.
C30_Witness ==
    /\ Answered(1) /\ req[1].op = "enc_keys"
    /\ req[1].extension_mandatory_given /\ req[1].extension_mandatory # <<>>
    /\ resp[1].status = 400
    /\ Len(alloc_log) >= 1
    /\ UnusedCount(keys_file) >= 1

\* the records of a key list that satisfy used = false and master_id = null,
\* in the order of the list
UnusedInOrder(keys) ==
    SelectSeq(keys, LAMBDA k : ~k.is_used /\ k.master_sae_id = None)

\* C31: allocate selects in insertion order: the keys an allocate selects are
\* the first `count` records of the store, in store order, with used = false
\* and master_id = null, and the keys it returns are those keys in that order;
\* the selection is a function of the store and the count.
C31_SelectsFirstUnusedInOrder ==
    [][\A w \in {1} :
          /\ (MasterGetKeys(w) /\ pc'[w] = "master_save_keys") =>
                KeyIdSeqOf(loc'[w].selected_keys)
                    = KeyIdSeqOf(SubSeq(UnusedInOrder(keys_file), 1,
                                        InternalRequest(req[w]).number))
          /\ MasterSaveSessions(w) =>
                KeyIdSeqOf(resp'[w].container) = KeyIdSeqOf(loc[w].selected_keys)]_vars

\* C31 witness: two allocates of one key each have returned the first and then
\* the second record of the store.
C31_Witness ==
    /\ Quiescent
    /\ Len(alloc_log) = 2 /\ Len(keys_file) = 2
    /\ KeyIdSeqOf(alloc_log[1].keys) = <<keys_file[1].key_id>>
    /\ KeyIdSeqOf(alloc_log[2].keys) = <<keys_file[2].key_id>>

\* C32: the write-back of a successful allocate sets used = true, master_id =
\* master and slave_ids = the slave followed by the additional slaves on
\* exactly the selected key records and leaves every other key record of the
\* store as it is, also when other allocates and refills run concurrently.
C32_AllocateMarksOnlySelected ==
    [][\A w \in Workers :
          MasterSaveKeys(w) =>
             LET selected == KeyIdsOf(loc[w].selected_keys)
                 k == InternalRequest(req[w])
             IN  /\ Cardinality(selected) = k.number
                 /\ Len(keys_file') = Len(keys_file)
                 /\ \A i \in 1..Len(keys_file) :
                       IF keys_file[i].key_id \in selected
                       THEN keys_file'[i] =
                               [keys_file[i] EXCEPT
                                   !.is_used = TRUE, !.master_sae_id = req[w].caller,
                                   !.slave_sae_ids = <<req[w].target>> \o k.additional]
                       ELSE keys_file'[i] = keys_file[i]]_vars

\* C33: retrieve changes nothing: a retrieve, called directly or through the
\* dec_keys route, leaves every key record, the pool metadata and the session
\* ledger as they are; the same retrieve repeated returns the same keys; and
\* the dec_keys request of an authorized slave succeeds with the stored material.
C33_RetrieveReadOnlyAndRepeatable ==
    [][\A w \in {1} :
          req'[w].op \in {"retrieve", "dec_keys"} =>
             /\ store' = store
             /\ next_uuid' = next_uuid
             /\ (req'[w] = req[w] /\ resp[w].returned) => resp'[w] = resp[w]
             /\ (/\ req'[w].op = "dec_keys"
                 /\ req'[w].key_ids # <<>>
                 /\ RetrievePasses(keys_file, req'[w].caller, req'[w].target, req'[w].key_ids))
                    => /\ resp'[w].status = 200
                       /\ \A i \in 1..Len(req'[w].key_ids) :
                              resp'[w].body[i].key
                                  = keys_file[FindKey(keys_file, req'[w].key_ids[i])].key_material]_vars

\* C34: the stored_key_count a status call reports is the number of key records
\* with used = false in the store at the time of the call, its max_key_count is
\* max_size of the pool, and the write-back of a successful allocate of n keys
\* lowers the number of unused key records, and so the next stored_key_count,
\* by exactly n.
C34_StatusCountsUnusedKeys ==
    /\ [](\A w \in {1} :
             (Answered(w) /\ req[w].op = "status") =>
                 /\ resp[w].status = 200
                 /\ resp[w].available_keys = UnusedCount(keys_file)
                 /\ resp[w].max_key_pool_size = key_pool_file.max_size)
    /\ [][\A w \in {1} :
             MasterSaveKeys(w) =>
                 UnusedCount(keys_file')
                     = UnusedCount(keys_file) - InternalRequest(req[w]).number]_vars

\* C35: a key record is never lost: once an allocate has returned a key id,
\* the store holds, in every later state, a record with that id, the material
\* that was returned and used = true, whatever refills, allocations and reads
\* run afterwards or concurrently.
C35_AllocatedKeyStaysStored ==
    \A n \in 1..Len(alloc_log) : \A j \in 1..Len(alloc_log[n].keys) :
        \E i \in 1..Len(keys_file) :
            /\ keys_file[i].key_id = alloc_log[n].keys[j].key_id
            /\ keys_file[i].key_material = alloc_log[n].keys[j].key_material
            /\ keys_file[i].is_used

\* some allocate, in progress or finished, is of this master to this primary
\* slave with these additional slaves
AllocatedTo(master_sae_id, slave_sae_ids) ==
    \/ \E w \in Workers :
          /\ req[w].op = "enc_keys"
          /\ req[w].caller = master_sae_id
          /\ slave_sae_ids = <<req[w].target>> \o req[w].additional
    \/ \E n \in 1..Len(alloc_log) :
          /\ alloc_log[n].master = master_sae_id
          /\ slave_sae_ids = <<alloc_log[n].slave>> \o alloc_log[n].additional

\* C36: in every reachable state and for every key record, used = true if and
\* only if master_id is set; a used key has a non-empty slave_ids that starts
\* with the primary slave of an allocate of its master; an unused key has no
\* master_id and an empty slave_ids.
C36_UsedIffOwned ==
    \A i \in 1..Len(keys_file) :
        LET key == keys_file[i]
        IN  /\ key.is_used <=> key.master_sae_id # None
            /\ key.is_used =>
                   /\ key.slave_sae_ids # <<>>
                   /\ AllocatedTo(key.master_sae_id, key.slave_sae_ids)
            /\ ~key.is_used => key.slave_sae_ids = <<>>

\* C36 witness: the store holds a used key with a primary and an additional
\* slave next to an unused key.
C36_Witness ==
    /\ Len(keys_file) = 2
    /\ keys_file[1].is_used /\ Len(keys_file[1].slave_sae_ids) = 2
    /\ ~keys_file[2].is_used

\* the headers carry a certificate the upstream proxy verified: X-Client-Verified
\* is SUCCESS and the DN has a common name
VerifiedCertificate(headers) ==
    headers.client_verified = "SUCCESS" /\ CommonName(headers.client_dn) # ""

\* C37: with header authentication disabled, as it is by default, a request
\* without an upstream-verified certificate is answered 401 and reaches neither
\* allocate, retrieve nor status, whatever X-SAE-ID header it carries.
C37_HeaderAuthOnlyWhenEnabled ==
    \A w \in {1} :
        (/\ req[w].op \in {"status", "enc_keys", "dec_keys"}
         /\ ~AllowHeaderAuth
         /\ ~VerifiedCertificate(req[w].headers))
            => /\ resp[w].status = 401
               /\ pc[w] = "idle"
               /\ req[w].caller = None

====
